---- MODULE Spec2Model ----
\* Model of terminal-noise.py: the paced display loops of TerminalNoise
\* (run_single, run_multiprocess), the SIGINT handler, the worker pool the
\* multiprocess loop feeds, and the rolling FPS window of calculate_fps.
\*
\* Time values (self.time, time_val) are counted in units of time_step
\* (0.05 in the source); wall-clock durations are counted in clock ticks.
EXTENDS Integers, Sequences, FiniteSets, TLC

\* ---------------------------------------------------------------- bounds
\* cpu_count(): the number of CPUs of the machine, hence the pool size and
\* buffer_size of run_multiprocess.
cpu_count == 2
\* The model stops starting new loop iterations after this many frames.
MaxFrames == 3
\* frame_time = 1.0 / target_fps, in clock ticks.
frame_time == 2
\* Largest measured duration of one iteration (longer than frame_time).
MaxElapsed == frame_time + 1
\* Largest measured frame-to-frame duration, in clock ticks.
MaxDuration == 1
\* Number of calculate_fps calls made by the FPS-window specification.
MaxCalls == 32
\* In the FPS-window specification, at most this many durations differ from 1.
MaxVaried == 2
\* Noise values are the multiples of 1 / NoiseRes in [-1, 1].
NoiseRes == 8
\* Charsets have 1 .. MaxCharsetLen characters.
MaxCharsetLen == 10
\* The interpolation parameter t takes the multiples of 1 / ColorRes in [0, 1].
ColorRes == 4
\* Color strings given to parse_hex_color have at most this many characters.
MaxHexLen == 7

\* ------------------------------------------------------ program constants
\* time_step = 0.05: one unit of the time axis.
time_step == 1
\* Capacity of the rolling FPS window.
FpsWindowCap == 30

Durations == 0..MaxDuration
Elapsed == 0..MaxElapsed

VARIABLES
    use_multiprocess,  \* self.use_multiprocess
    show_fps,          \* self.show_fps
    running,           \* self.running
    time,              \* self.time, in units of time_step
    frame_times,       \* self.frame_times
    pc,                \* position of the main thread
    exc,               \* an exception is propagating out of the run
    out,               \* the writes made to sys.stdout, in order
    futures,           \* the list `futures` of run_multiprocess
    broken,            \* the process pool is broken (a worker died)
    submitted,         \* history: time values passed to executor.submit
    lateSubmits,       \* history: submits made while running was False,
                       \*   counted per loop (warm-up, refill)
    pace,              \* history: last elapsed time and the sleep it caused
    arrivals,          \* history: every duration passed to calculate_fps
    term,              \* environment: what os.get_terminal_size() gives now
    wh,                \* the locals width, height of run_multiprocess
    frameLog,          \* history: per frame written, its size and whether
                       \*   running was already False when it was written
    args,              \* main(): the parsed command line
    color,             \* self.color_start, self.color_end
    fn                 \* a pure function under test: its input and result

vars == <<use_multiprocess, show_fps, running, time, frame_times, pc, exc,
          out, futures, broken, submitted, lateSubmits, pace, arrivals,
          term, wh, frameLog, args, color, fn>>

cfgVars  == <<use_multiprocess, show_fps>>
poolVars == <<futures, broken, submitted, lateSubmits>>
fpsVars  == <<frame_times, arrivals>>
envVars  == <<term, args, color, fn>>
geomVars == <<wh, frameLog>>

\* ------------------------------------------------------------- helpers
Max(a, b) == IF a >= b THEN a ELSE b

RECURSIVE Sum(_)
Sum(s) == IF s = <<>> THEN 0 ELSE Head(s) + Sum(Tail(s))

\* The last n elements of s (all of s when it is shorter).
LastN(s, n) == IF Len(s) <= n THEN s ELSE SubSeq(s, Len(s) - n + 1, Len(s))

W(kind, t) == [k |-> kind, t |-> t]
CursorHide == W("hide", 0)     \* '\033[?25l'
CursorHome == W("home", 0)     \* '\033[H'
CursorShow == W("show", 0)     \* '\033[?25h'
Newline    == W("nl", 0)       \* '\n'
FrameBody(t) == W("frame", t)  \* the frame rendered for time value t
FpsLine(f)   == W("fps", f)    \* f'\n{fps:.2f}'

IsFrame(w) == w.k = "frame"
\* Time values of the frames written so far, in the order written.
Displayed == LET fs == SelectSeq(out, IsFrame)
             IN  [i \in 1..Len(fs) |-> fs[i].t]

\* ------------------------------------------------------- calculate_fps
\* self.frame_times after calculate_fps(d): append, then drop the oldest
\* when the window holds more than 30 durations.
FrameTimesAfterDropNewest(ft, d) ==
    LET a == Append(ft, d)
    IN  IF Len(a) > FpsWindowCap THEN SubSeq(a, 1, Len(a) - 1) ELSE a

FrameTimesAfter(ft, d) ==
    LET a == Append(ft, d)
    IN  IF Len(a) > FpsWindowCap THEN Tail(a) ELSE a

\* The value calculate_fps returns, in hundredths (as the '.2f' line shows
\* it): 1 / (sum / len), or 0 when the window is empty or its mean is not
\* positive.
FpsValue(ft) ==
    IF ft = <<>> THEN 0
    ELSE IF Sum(ft) > 0 THEN (200 * Len(ft) + Sum(ft)) \div (2 * Sum(ft))
    ELSE 0

\* ---------------------------------------------------------------- pacing
SleepTimeFpsFeedback(elapsed) == frame_time - elapsed - Sum(frame_times)

SleepTime(elapsed) == frame_time - elapsed

ShouldSleepAlways(sleep_time) == TRUE

ShouldSleep(sleep_time) == sleep_time > 0

\* Lines 221-224 / 290-293: measure, subtract, sleep when positive.
Pace(elapsed) ==
    LET sleep_time == SleepTime(elapsed)
    IN  pace' = [n       |-> 1,
                 elapsed |-> elapsed,
                 called  |-> ShouldSleep(sleep_time),
                 arg     |-> IF ShouldSleep(sleep_time) THEN sleep_time ELSE 0]

\* self.time += time_step
AdvanceTimeSkip(t) == t + 2 * time_step

AdvanceTime(t) == t + time_step

\* `while self.running:`
LoopCondIgnoreFlag(r) == TRUE

LoopCond(r) == r

\* Where an exception raised inside `try:` goes: the `finally:` block.
ExceptTargetNoFinally == "done"

ExceptTarget == "finally"

\* What the display part of an iteration writes: the cursor-home, the
\* frame, and the FPS line when show_fps is set.
FrameWritesBodyFirst(t, d) ==
    IF show_fps
    THEN <<FrameBody(t), CursorHome, FpsLine(FpsValue(FrameTimesAfter(frame_times, d)))>>
    ELSE <<FrameBody(t), CursorHome>>

FrameWrites(t, d) ==
    IF show_fps
    THEN <<CursorHome, FrameBody(t), FpsLine(FpsValue(FrameTimesAfter(frame_times, d)))>>
    ELSE <<CursorHome, FrameBody(t)>>

FpsUpdate(d) ==
    IF show_fps
    THEN /\ frame_times' = FrameTimesAfter(frame_times, d)
         /\ arrivals' = Append(arrivals, d)
    ELSE UNCHANGED fpsVars

\* -------------------------------------------------------- terminal size
\* What os.get_terminal_size() can give: a size, or OSError (TermNone).
TermSmall == [ok |-> TRUE, columns |-> 4, lines |-> 4]
TermLarge == [ok |-> TRUE, columns |-> 6, lines |-> 5]
TermNone  == [ok |-> FALSE, columns |-> 0, lines |-> 0]
TermStates == {TermSmall, TermLarge, TermNone}

\* The fallback geometry of line 101.
FallbackColumns == 80
FallbackLines == 24

\* reserve = 2 if self.show_fps else 1
Reserve(show) == IF show THEN 2 ELSE 1

\* get_terminal_size(): columns and lines - reserve of the terminal, or
\* the fallback when os.get_terminal_size() raises OSError.
GetTerminalSize(env, show) ==
    IF env.ok
    THEN [w |-> env.columns, h |-> env.lines - Reserve(show)]
    ELSE [w |-> FallbackColumns, h |-> FallbackLines]

NoSize == [w |-> 0, h |-> 0]

\* Values of args, color and fn while they play no part.
NoArgs == [no_color |-> TRUE, color_start |-> <<>>, color_end |-> <<>>,
           charset |-> "simple"]
NoColor == [start |-> <<>>, end |-> <<>>]
NoFn == [op |-> "none", arg |-> <<>>, res |-> <<>>, done |-> FALSE]

\* What every specification starts from, whatever it then exercises.
InitCommon ==
    /\ running = TRUE
    /\ time = 0
    /\ frame_times = <<>>
    /\ exc = FALSE
    /\ out = <<>>
    /\ futures = <<>>
    /\ broken = FALSE
    /\ submitted = <<>>
    /\ lateSubmits = [warmup |-> 0, refill |-> 0]
    /\ pace = [n |-> 0, elapsed |-> 0, called |-> FALSE, arg |-> 0]
    /\ arrivals = <<>>
    /\ wh = NoSize
    /\ frameLog = <<>>

\* ------------------------------------------------------------------ Init
\* A run on a terminal whose size is available and does not change.
Init ==
    /\ use_multiprocess \in BOOLEAN
    /\ show_fps \in BOOLEAN
    /\ pc = "start"
    /\ term = TermSmall
    /\ args = NoArgs
    /\ color = NoColor
    /\ fn = NoFn
    /\ InitCommon

\* ------------------------------------------------------- signal handler
\* _signal_handler: runs between any two steps of the main thread.
Sigint ==
    /\ running' = FALSE
    /\ UNCHANGED <<cfgVars, envVars, geomVars, time, pc, exc, out, poolVars, pace, fpsVars>>

\* History: a frame of the given size has been written.
LogFrame(size) ==
    frameLog' = Append(frameLog, [size |-> size, late |-> ~running])

\* ------------------------------------------------------------ run_single
\* `out` records the writes the program makes. The escapes and the FPS
\* line are ASCII constants whose write succeeds whenever stdout can be
\* written at all; a frame body depends on the charset and the renderer,
\* and producing or writing it may raise. A flush that fails right after
\* the cursor-hide (lines 193, 242) has not delivered the escape, so that
\* path is not one on which the cursor was hidden.
\* run(): not use_multiprocess; lines 188-196, the cursor-hide.
SingleEnter ==
    /\ pc = "start"
    /\ ~use_multiprocess
    /\ out' = Append(out, CursorHide)
    /\ pc' = "s_loop"
    /\ UNCHANGED <<cfgVars, envVars, geomVars, running, time, exc, poolVars, pace, fpsVars>>

\* Line 197: the loop test.
SingleLoopTest ==
    /\ pc = "s_loop"
    /\ IF LoopCond(running)
       THEN /\ Len(Displayed) < MaxFrames
            /\ pc' = "s_frame"
       ELSE pc' = "finally"
    /\ UNCHANGED <<cfgVars, envVars, geomVars, running, time, exc, out, poolVars, pace, fpsVars>>

\* Lines 198-218: cursor-home, render, write, FPS line, flush, advance time.
SingleFrame ==
    /\ pc = "s_frame"
    /\ \E d \in Durations :
          /\ out' = out \o FrameWrites(time, d)
          /\ FpsUpdate(d)
    /\ LogFrame(GetTerminalSize(term, show_fps))
    /\ time' = AdvanceTime(time)
    /\ pc' = "s_pace"
    /\ UNCHANGED <<cfgVars, envVars, wh, running, exc, poolVars, pace>>

\* render_frame() raises: the cursor-home is written, the frame is not.
SingleRenderRaises ==
    /\ pc = "s_frame"
    /\ out' = Append(out, CursorHome)
    /\ exc' = TRUE
    /\ pc' = ExceptTarget
    /\ UNCHANGED <<cfgVars, envVars, geomVars, running, time, poolVars, pace, fpsVars>>

\* Lines 220-224.
SinglePace ==
    /\ pc = "s_pace"
    /\ \E e \in Elapsed : Pace(e)
    /\ pc' = "s_loop"
    /\ UNCHANGED <<cfgVars, envVars, geomVars, running, time, exc, out, poolVars, fpsVars>>

\* ------------------------------------------------------ run_multiprocess
\* run(): use_multiprocess; lines 234-242: the terminal size is taken,
\* then the cursor-hide is written.
MultiEnter ==
    /\ pc = "start"
    /\ use_multiprocess
    /\ wh' = GetTerminalSize(term, show_fps)
    /\ out' = Append(out, CursorHide)
    /\ pc' = "mp_executor"
    /\ UNCHANGED <<cfgVars, envVars, frameLog, running, time, exc, poolVars, pace, fpsVars>>

\* Line 245: ProcessPoolExecutor(max_workers=cpu_count()).
MultiExecutor ==
    /\ pc = "mp_executor"
    /\ pc' = "mp_warmup"
    /\ UNCHANGED <<cfgVars, envVars, geomVars, running, time, exc, out, poolVars, pace, fpsVars>>

\* Line 245 raises (the pool cannot be created).
MultiExecutorRaises ==
    /\ pc = "mp_executor"
    /\ exc' = TRUE
    /\ pc' = ExceptTarget
    /\ UNCHANGED <<cfgVars, envVars, geomVars, running, time, out, poolVars, pace, fpsVars>>

\* executor.submit(_render_frame_worker, args) with args' time_val = tv;
\* phase says which loop makes the call ("warmup" or "refill").
Submit(tv, phase) ==
    /\ futures' = Append(futures, [t |-> tv, st |-> "pending", size |-> wh])
    /\ submitted' = Append(submitted, tv)
    /\ lateSubmits' = IF running THEN lateSubmits
                      ELSE [lateSubmits EXCEPT ![phase] = @ + 1]
    /\ UNCHANGED broken

\* Time value of the i-th warm-up request (i from 0), line 249.
WarmupTimeValOffByOne(i) == time + (i + 1) * time_step

WarmupTimeVal(i) == time + i * time_step

\* Time value of the request that refills the pipeline, line 279.
RefillTimeVal == time + cpu_count * time_step

\* Lines 248-256: one turn of the warm-up loop, or its end.
MultiWarmup ==
    /\ pc = "mp_warmup"
    /\ IF Len(futures) < cpu_count
       THEN IF broken
            THEN /\ exc' = TRUE
                 /\ pc' = "mp_exit"
                 /\ UNCHANGED poolVars
            ELSE /\ Submit(WarmupTimeVal(Len(futures)), "warmup")
                 /\ UNCHANGED <<pc, exc>>
       ELSE /\ pc' = "mp_loop"
            /\ UNCHANGED <<exc, poolVars>>
    /\ UNCHANGED <<cfgVars, envVars, geomVars, running, time, out, pace, fpsVars>>

\* Line 257: the loop test.
MultiLoopTest ==
    /\ pc = "mp_loop"
    /\ IF LoopCond(running)
       THEN /\ Len(Displayed) < MaxFrames
            /\ pc' = "mp_wait"
       ELSE pc' = "mp_exit"
    /\ UNCHANGED <<cfgVars, envVars, geomVars, running, time, exc, out, poolVars, pace, fpsVars>>

\* Which future the loop waits on and takes: position 0 of the list.
WaitIndexNewest(fs) == Len(fs)

WaitIndex(fs) == 1

\* futures.pop(0)
RemoveAtKeep(s, i) == s

RemoveAt(s, i) == [j \in 1..(Len(s) - 1) |-> IF j < i THEN s[j] ELSE s[j + 1]]

\* Lines 261-276: futures[0].result() returns; pop, write, FPS line, flush.
MultiTake ==
    /\ pc = "mp_wait"
    /\ LET i == WaitIndex(futures) IN
          /\ futures[i].st = "done"
          /\ futures' = RemoveAt(futures, i)
          /\ \E d \in Durations :
                /\ out' = out \o FrameWrites(futures[i].t, d)
                /\ FpsUpdate(d)
          /\ LogFrame(futures[i].size)
    /\ pc' = "mp_submit"
    /\ UNCHANGED <<cfgVars, envVars, wh, running, time, exc, broken, submitted, lateSubmits, pace>>

\* Line 261: futures[0].result() re-raises the worker's exception.
MultiTakeRaises ==
    /\ pc = "mp_wait"
    /\ futures[WaitIndex(futures)].st = "failed"
    /\ exc' = TRUE
    /\ pc' = "mp_exit"
    /\ UNCHANGED <<cfgVars, envVars, geomVars, running, time, out, poolVars, pace, fpsVars>>

\* Lines 262-266: the result is popped but writing the frame raises.
MultiWriteRaises ==
    /\ pc = "mp_wait"
    /\ LET i == WaitIndex(futures) IN
          /\ futures[i].st = "done"
          /\ futures' = RemoveAt(futures, i)
    /\ out' = Append(out, CursorHome)
    /\ exc' = TRUE
    /\ pc' = "mp_exit"
    /\ UNCHANGED <<cfgVars, envVars, geomVars, running, time, broken, submitted, lateSubmits, pace, fpsVars>>

\* Lines 278-287: refill the pipeline, advance time.
MultiSubmit ==
    /\ pc = "mp_submit"
    /\ IF broken
       THEN /\ exc' = TRUE
            /\ pc' = "mp_exit"
            /\ UNCHANGED <<poolVars, time>>
       ELSE /\ Submit(RefillTimeVal, "refill")
            /\ time' = AdvanceTime(time)
            /\ pc' = "mp_pace"
            /\ UNCHANGED exc
    /\ UNCHANGED <<cfgVars, envVars, geomVars, running, out, pace, fpsVars>>

\* Lines 289-293.
MultiPace ==
    /\ pc = "mp_pace"
    /\ \E e \in Elapsed : Pace(e)
    /\ pc' = "mp_loop"
    /\ UNCHANGED <<cfgVars, envVars, geomVars, running, time, exc, out, poolVars, fpsVars>>

NoPending == \A i \in 1..Len(futures) : futures[i].st # "pending"

\* Leaving `with ProcessPoolExecutor(...)`: __exit__ calls
\* shutdown(wait=True), which returns when every submitted request has
\* run; control then reaches the `finally:` block.
MultiShutdown ==
    /\ pc = "mp_exit"
    /\ NoPending
    /\ pc' = IF exc THEN ExceptTarget ELSE "finally"
    /\ UNCHANGED <<cfgVars, envVars, geomVars, running, time, exc, out, poolVars, pace, fpsVars>>

\* ---------------------------------------------------------------- finally
\* Lines 226-230 / 295-299: cursor-show, newline, flush; then the run
\* returns, or the exception goes on to the caller.
FinallyWritesNoNewline == <<CursorShow>>

FinallyWrites == <<CursorShow, Newline>>

Finally ==
    /\ pc = "finally"
    /\ out' = out \o FinallyWrites
    /\ pc' = "done"
    /\ UNCHANGED <<cfgVars, envVars, geomVars, running, time, exc, poolVars, pace, fpsVars>>

\* ---------------------------------------------------------------- workers
PoolAlive == pc \in {"mp_warmup", "mp_loop", "mp_wait", "mp_submit", "mp_pace", "mp_exit"}

\* _render_frame_worker returns (ok) or raises (~ok) for request i.
WorkerComplete(i, ok) ==
    /\ PoolAlive
    /\ i \in 1..Len(futures)
    /\ futures[i].st = "pending"
    /\ futures' = [futures EXCEPT ![i].st = IF ok THEN "done" ELSE "failed"]
    /\ UNCHANGED <<cfgVars, envVars, geomVars, running, time, pc, exc, out, broken, submitted,
                   lateSubmits, pace, fpsVars>>

\* A worker process dies: every outstanding future fails with
\* BrokenProcessPool and later submits raise.
PoolBreak ==
    /\ PoolAlive
    /\ ~broken
    /\ broken' = TRUE
    /\ futures' = [i \in 1..Len(futures) |->
                     IF futures[i].st = "pending"
                     THEN [futures[i] EXCEPT !.st = "failed"]
                     ELSE futures[i]]
    /\ UNCHANGED <<cfgVars, envVars, geomVars, running, time, pc, exc, out, submitted,
                   lateSubmits, pace, fpsVars>>

\* ------------------------------------------------------------------ Next
MainNext ==
    \/ SingleEnter
    \/ SingleLoopTest
    \/ SingleFrame
    \/ SingleRenderRaises
    \/ SinglePace
    \/ MultiEnter
    \/ MultiExecutor
    \/ MultiExecutorRaises
    \/ MultiWarmup
    \/ MultiLoopTest
    \/ MultiTake
    \/ MultiTakeRaises
    \/ MultiWriteRaises
    \/ MultiSubmit
    \/ MultiPace
    \/ MultiShutdown
    \/ Finally

WorkerNext == \E i \in 1..cpu_count : \E ok \in BOOLEAN : WorkerComplete(i, ok)

Next ==
    \/ MainNext
    \/ WorkerNext
    \/ PoolBreak
    \/ Sigint

Spec == Init /\ [][Next]_vars

\* The main thread keeps running, and a render that has been submitted
\* ends (it returns or raises): the worker's loops are finite.
FairSpec == Spec /\ WF_vars(MainNext) /\ WF_vars(WorkerNext)

\* ------------------------------------------- the FPS window on its own
\* calculate_fps called MaxCalls times on a fresh TerminalNoise.
InitFps ==
    /\ use_multiprocess = FALSE
    /\ show_fps = TRUE
    /\ pc = "fps"
    /\ term = TermSmall
    /\ args = NoArgs
    /\ color = NoColor
    /\ fn = NoFn
    /\ InitCommon

Varied(s) == Cardinality({i \in 1..Len(s) : s[i] # 1})

CalculateFps(d) ==
    /\ pc = "fps"
    /\ Len(arrivals) < MaxCalls
    /\ Varied(Append(arrivals, d)) <= MaxVaried
    /\ frame_times' = FrameTimesAfter(frame_times, d)
    /\ arrivals' = Append(arrivals, d)
    /\ UNCHANGED <<cfgVars, envVars, geomVars, running, time, pc, exc, out, poolVars, pace>>

NextFps == \E d \in Durations : CalculateFps(d)

SpecFps == InitFps /\ [][NextFps]_vars

\* ------------------------------------------ a terminal that is resized
\* SpecTerm: the same run on a terminal whose size may be anything at the
\* start and may change (or become unavailable) at any moment of the run.
Resize ==
    /\ pc # "done"
    /\ term' \in TermStates \ {term}
    /\ UNCHANGED <<cfgVars, args, color, fn, geomVars, running, time, pc, exc,
                   out, poolVars, pace, fpsVars>>

InitTerm ==
    /\ use_multiprocess \in BOOLEAN
    /\ show_fps \in BOOLEAN
    /\ pc = "start"
    /\ term \in TermStates
    /\ args = NoArgs
    /\ color = NoColor
    /\ fn = NoFn
    /\ InitCommon

NextTerm ==
    \/ Next
    \/ Resize

SpecTerm == InitTerm /\ [][NextTerm]_vars

\* ------------------------------------------------ pure functions alone
\* Each behaviour of SpecPure takes one input of one pure function of the
\* program (fn.op, fn.arg) and applies the function to it (fn.res).
PureUnchanged ==
    UNCHANGED <<cfgVars, term, args, color, geomVars, running, time, pc, exc,
                out, poolVars, pace, fpsVars>>

\* int(x) for x = a / b, b > 0: truncation toward zero.
Trunc(a, b) == IF a >= 0 THEN a \div b ELSE -((-a) \div b)

\* normalized = (noise_value + 1) * 0.5; idx = int(normalized * (len(charset) - 1))
\* for noise_value = n / NoiseRes and a charset of len characters.
GlyphIndexFullLen(n, len) == Trunc((n + NoiseRes) * len, 2 * NoiseRes)

GlyphIndex(n, len) == Trunc((n + NoiseRes) * (len - 1), 2 * NoiseRes)

GlyphInputs ==
    {[op |-> "glyph", arg |-> [v |-> n, len |-> l], res |-> 0, done |-> FALSE] :
        n \in (-NoiseRes)..NoiseRes, l \in 1..MaxCharsetLen}

\* noise_to_char / render_frame / _render_frame_worker: the index used in
\* charset[idx].
GlyphStep ==
    /\ pc = "pure"
    /\ fn.op = "glyph"
    /\ ~fn.done
    /\ fn' = [fn EXCEPT !.res = GlyphIndex(fn.arg.v, fn.arg.len), !.done = TRUE]
    /\ PureUnchanged

\* int(start + (end - start) * t) for one channel, t = n / ColorRes.
InterpChannelFromEnd(cs, ce, n) == Trunc(ce * ColorRes + (ce - cs) * n, ColorRes)

InterpChannel(cs, ce, n) == Trunc(cs * ColorRes + (ce - cs) * n, ColorRes)

\* interpolate_color(t) with self.color_start = start, self.color_end = end.
InterpolateColor(start, end, n) ==
    [c \in 1..3 |-> InterpChannel(start[c], end[c], n)]

\* Channel values the colors are drawn from.
Channels == {0, 128, 255}
Triples == {<<r, g, b>> : r \in Channels, g \in Channels, b \in Channels}

InterpInputs ==
    {[op |-> "interp", arg |-> [start |-> s, end |-> e, t |-> n], res |-> <<>>,
      done |-> FALSE] : s \in Triples, e \in Triples, n \in 0..ColorRes}

InterpStep ==
    /\ pc = "pure"
    /\ fn.op = "interp"
    /\ ~fn.done
    /\ fn' = [fn EXCEPT !.res = InterpolateColor(fn.arg.start, fn.arg.end, fn.arg.t),
                         !.done = TRUE]
    /\ PureUnchanged

\* Characters are one-character strings; a string is a sequence of them.
HexDigits == {"1", "F"}
HexVal(c) == IF c = "F" THEN 15 ELSE 1
Signs == {"-", "+"}
Spaces == {" "}

\* int(c1 c2, 16) for a two-character string: as Python's int() does it,
\* surrounding whitespace is stripped and one leading sign is accepted
\* before the digits; anything else is a ValueError.
IntBase16(c1, c2) ==
    IF c1 \in HexDigits /\ c2 \in HexDigits
        THEN [ok |-> TRUE, v |-> 16 * HexVal(c1) + HexVal(c2)]
    ELSE IF c1 = "-" /\ c2 \in HexDigits THEN [ok |-> TRUE, v |-> -HexVal(c2)]
    ELSE IF c1 = "+" /\ c2 \in HexDigits THEN [ok |-> TRUE, v |-> HexVal(c2)]
    ELSE IF c1 \in Spaces /\ c2 \in HexDigits THEN [ok |-> TRUE, v |-> HexVal(c2)]
    ELSE IF c1 \in HexDigits /\ c2 \in Spaces THEN [ok |-> TRUE, v |-> HexVal(c1)]
    ELSE [ok |-> FALSE, v |-> 0]

\* hex_str.lstrip('#')
RECURSIVE LStripHash(_)
LStripHash(s) ==
    IF s # <<>> /\ Head(s) = "#" THEN LStripHash(Tail(s)) ELSE s

\* parse_hex_color(s): the RGB triple, or ValueError (ok = FALSE).
ParseHexColor(s) ==
    LET h  == LStripHash(s)
        ch == [c \in 1..3 |-> IntBase16(h[2 * c - 1], h[2 * c])]
    IN  IF Len(h) # 6 THEN [ok |-> FALSE, rgb |-> <<>>]
        ELSE IF \A c \in 1..3 : ch[c].ok
             THEN [ok |-> TRUE, rgb |-> [c \in 1..3 |-> ch[c].v]]
             ELSE [ok |-> FALSE, rgb |-> <<>>]

\* The characters color strings are built from here.
HexChars == {"#", "1", "F", "-"}
HexStrings == UNION {[1..n -> HexChars] : n \in 0..MaxHexLen}

HexInputs ==
    {[op |-> "hex", arg |-> s, res |-> [ok |-> FALSE, rgb |-> <<>>], done |-> FALSE] :
        s \in HexStrings}

HexStep ==
    /\ pc = "pure"
    /\ fn.op = "hex"
    /\ ~fn.done
    /\ fn' = [fn EXCEPT !.res = ParseHexColor(fn.arg), !.done = TRUE]
    /\ PureUnchanged

TermInputs ==
    {[op |-> "termsize", arg |-> [env |-> e, show |-> s], res |-> NoSize,
      done |-> FALSE] : e \in TermStates, s \in BOOLEAN}

\* get_terminal_size() with self.show_fps = show on a terminal in state env.
TermStep ==
    /\ pc = "pure"
    /\ fn.op = "termsize"
    /\ ~fn.done
    /\ fn' = [fn EXCEPT !.res = GetTerminalSize(fn.arg.env, fn.arg.show), !.done = TRUE]
    /\ PureUnchanged

\* The input of a behaviour: one input of one of the functions.
PureInput(f) ==
    \/ f \in GlyphInputs
    \/ f \in InterpInputs
    \/ f \in HexInputs
    \/ f \in TermInputs

InitPure ==
    /\ use_multiprocess = FALSE
    /\ show_fps = FALSE
    /\ pc = "pure"
    /\ term = TermSmall
    /\ args = NoArgs
    /\ color = NoColor
    /\ PureInput(fn)
    /\ InitCommon

NextPure ==
    \/ GlyphStep
    \/ InterpStep
    \/ HexStep
    \/ TermStep

SpecPure == InitPure /\ [][NextPure]_vars

\* ------------------------------------------------------------- main()
\* SpecMain: main() from the parsed command line to the entry of the run.
CharsetNames == {"simple", "growth", "dense", "blocks", "box"}

\* Values given on the command line here.
CharsetArgs == {"simple", "blocks", "bogus"}
ColorArgs ==
    { <<"#", "F", "F", "1", "1", "F", "F">>,
      <<"1", "1", "1", "1", "1", "1">>,
      <<"-", "1", "-", "1", "-", "1">>,
      <<"1", "1", "1">> }

\* Lines 312-317, 352: argparse refuses a charset outside `choices`.
MainParseArgs ==
    /\ pc = "main"
    /\ pc' = IF args.charset \in CharsetNames THEN "main_colors" ELSE "exit_error"
    /\ UNCHANGED <<cfgVars, term, args, color, fn, geomVars, running, time, exc,
                   out, poolVars, pace, fpsVars>>

\* Lines 354-373: the colors are parsed unless --no-color; a ValueError is
\* reported and the process exits; otherwise the TerminalNoise is built
\* and run() is called.
MainConfigure ==
    /\ pc = "main_colors"
    /\ IF args.no_color
       THEN /\ color' = NoColor
            /\ pc' = "start"
       ELSE LET a == ParseHexColor(args.color_start)
                b == ParseHexColor(args.color_end)
            IN  IF a.ok /\ b.ok
                THEN /\ color' = [start |-> a.rgb, end |-> b.rgb]
                     /\ pc' = "start"
                ELSE /\ pc' = "exit_error"
                     /\ UNCHANGED color
    /\ UNCHANGED <<cfgVars, term, args, fn, geomVars, running, time, exc,
                   out, poolVars, pace, fpsVars>>

InitMain ==
    /\ use_multiprocess \in BOOLEAN
    /\ show_fps \in BOOLEAN
    /\ pc = "main"
    /\ term = TermSmall
    /\ args \in [no_color : BOOLEAN, color_start : ColorArgs, color_end : ColorArgs,
                  charset : CharsetArgs]
    /\ color = NoColor
    /\ fn = NoFn
    /\ InitCommon

NextMain ==
    \/ MainParseArgs
    \/ MainConfigure
    \/ SingleEnter
    \/ MultiEnter

SpecMain == InitMain /\ [][NextMain]_vars

\* ================================================================ claims
InLoop == pc \in {"mp_loop", "mp_wait", "mp_submit", "mp_pace"}

\* C1: in run_multiprocess, whatever the order in which the workers
\* complete, the k-th frame written has time value t0 + k * time_step
\* (t0 = 0, k from 0): strictly increasing, consecutive frames one
\* time_step apart.
C1_FramesInSubmissionOrder ==
    use_multiprocess =>
        \A k \in 1..Len(Displayed) : Displayed[k] = (k - 1) * time_step

\* Frames have been displayed and, at this moment, a younger request has
\* completed while the oldest one is still being rendered.
C1_Witness ==
    /\ use_multiprocess
    /\ pc = "mp_wait"
    /\ Len(Displayed) >= 2
    /\ futures[1].st = "pending"
    /\ futures[2].st = "done"

\* C2 (as claimed): once running is False the display loop of
\* run_multiprocess submits no further render request, wherever in the
\* iteration the interrupt arrives.
C2_NoSubmitAfterCancel == lateSubmits.refill = 0

\* C2 (amended): the flag is read only by the loop test, so the iteration
\* in progress when the interrupt arrives still makes its one refill
\* submission (and a warm-up in progress still makes its remaining
\* submissions); no iteration is started after the flag is set, hence at
\* most one refill request is submitted after cancellation, and none when
\* the interrupt arrived during warm-up.
C2_AtMostOneSubmitAfterCancel ==
    /\ lateSubmits.refill <= 1
    /\ lateSubmits.warmup <= cpu_count
    /\ (lateSubmits.warmup > 0 => lateSubmits.refill = 0)

\* The interrupt arrived in mid-iteration, that iteration submitted its
\* request, and the run has ended.
C2_Witness ==
    /\ pc = "done"
    /\ ~exc
    /\ lateSubmits.refill = 1

\* C3 (as claimed): on shutdown the outstanding futures are dropped
\* without waiting: once the loop has been left, returning from
\* run_multiprocess does not depend on an outstanding render finishing.
C3_ShutdownDoesNotWait == (pc = "mp_exit") => ENABLED MultiShutdown

CursorWrites == SelectSeq(out, LAMBDA w : w.k \in {"hide", "show"})

\* C4: every run that has written the cursor-hide and has ended (by
\* interrupt or by an exception) has written the cursor-show after it.
C4_CursorRestoredOnEveryExit ==
    pc = "done" =>
        /\ CursorWrites # <<>>
        /\ CursorWrites[Len(CursorWrites)] = CursorShow

\* A run ended by an exception, with the cursor shown again.
C4_Witness ==
    /\ pc = "done"
    /\ exc
    /\ CursorHide \in {out[i] : i \in 1..Len(out)}
    /\ out[Len(out) - 1] = CursorShow

\* C5: after an interrupt the run ends, and the last two writes of an
\* ended run are the cursor-show escape and then a newline.
C5_InterruptTerminates ==
    /\ (~running) ~> (pc = "done")
    /\ [](pc = "done" /\ ~running =>
            /\ Len(out) >= 2
            /\ out[Len(out) - 1] = CursorShow
            /\ out[Len(out)] = Newline)

\* A run that displayed frames and was ended by the interrupt alone.
C5_Witness ==
    /\ pc = "done"
    /\ ~running
    /\ ~exc
    /\ Len(Displayed) >= 1
    /\ out[Len(out)] = Newline

\* C6: after warm-up the queue holds cpu_count futures at the top of every
\* iteration, one request has been submitted per frame consumed, and the
\* queue length stays within cpu_count - 1 .. cpu_count.
C6_QueueLengthConstant ==
    (use_multiprocess /\ InLoop) =>
        /\ Len(futures) \in {cpu_count - 1, cpu_count}
        /\ (pc \in {"mp_loop", "mp_wait", "mp_pace"} =>
               /\ Len(futures) = cpu_count
               /\ Len(submitted) = cpu_count + Len(Displayed))
        /\ (pc = "mp_submit" =>
               /\ Len(futures) = cpu_count - 1
               /\ Len(submitted) = cpu_count + Len(Displayed) - 1)

\* The top of the third iteration: two frames consumed, queue full.
C6_Witness ==
    /\ pc = "mp_loop"
    /\ Len(Displayed) = 2
    /\ Len(futures) = cpu_count
    /\ Len(submitted) = cpu_count + 2

\* C7: warm-up submits exactly cpu_count requests, for time values
\* t0, t0 + time_step, ..., in that order, all before the first frame is
\* written.
C7_WarmupBeforeDisplay ==
    use_multiprocess =>
        /\ (Len(submitted) < cpu_count => Displayed = <<>>)
        /\ \A i \in 1..Len(submitted) :
              i <= cpu_count => submitted[i] = (i - 1) * time_step
        /\ (pc = "mp_loop" /\ Displayed = <<>> => Len(submitted) = cpu_count)

\* Warm-up has ended and nothing has been displayed yet.
C7_Witness ==
    /\ pc = "mp_loop"
    /\ Displayed = <<>>
    /\ Len(submitted) = cpu_count
    /\ submitted[cpu_count] = (cpu_count - 1) * time_step

\* C8: in both loops the frames written are the time slices
\* 0, time_step, 2 * time_step, ... each once and in order, and self.time
\* at the loop test is the next slice, whatever the iterations' measured
\* elapsed times were.
C8_NoSliceSkippedOrRepeated ==
    /\ \A k \in 1..Len(Displayed) : Displayed[k] = (k - 1) * time_step
    /\ (pc \in {"s_loop", "s_frame", "mp_loop", "mp_wait"} =>
           time = Len(Displayed) * time_step)

\* The previous iteration overran the frame interval and the next frame
\* has been written after it.
C8_Witness ==
    /\ pc \in {"s_pace", "mp_pace"}
    /\ pace.n = 1
    /\ pace.elapsed > frame_time
    /\ Len(Displayed) >= 2
    /\ Displayed[Len(Displayed)] = (Len(Displayed) - 1) * time_step

\* C9: the time slept in an iteration is max(0, frame_time - elapsed):
\* sleep is called exactly when frame_time - elapsed is positive, with
\* that value, and never with a negative one.
C9_SleepIsClampedRemainder ==
    pace.n = 1 =>
        /\ (IF pace.called THEN pace.arg ELSE 0) = Max(0, frame_time - pace.elapsed)
        /\ (pace.called <=> pace.elapsed < frame_time)
        /\ (pace.called => pace.arg > 0)

\* An iteration that took longer than the frame interval: no sleep.
C9_Witness ==
    /\ pace.n = 1
    /\ pace.elapsed > frame_time
    /\ ~pace.called

\* C10: after any sequence of calculate_fps calls the window holds at most
\* 30 durations, the most recent ones, in arrival order.
C10_WindowIsLast30 ==
    /\ Len(frame_times) <= FpsWindowCap
    /\ frame_times = LastN(arrivals, FpsWindowCap)

\* The 31st duration has arrived and the first one, which differs from
\* the second, is the one that has gone.
C10_Witness ==
    /\ Len(arrivals) = FpsWindowCap + 1
    /\ arrivals[1] # arrivals[2]
    /\ Len(frame_times) = FpsWindowCap
    /\ frame_times[1] = arrivals[2]

\* C11: FPS reporting never feeds back into pacing: in every step the
\* sleep decided is the one fixed by the measured elapsed time alone, the
\* time value advances by time_step or not at all, and a request submitted
\* is the one for the next time slice in sequence, whatever the FPS window
\* holds and whether or not FPS display is on; the window itself changes
\* only by calculate_fps's append-and-evict.
C11_FpsNeverFeedsBack ==
    [][ /\ (pace' # pace =>
               \E e \in Elapsed :
                  pace' = [n       |-> 1,
                           elapsed |-> e,
                           called  |-> e < frame_time,
                           arg     |-> Max(0, frame_time - e)])
        /\ time' \in {time, time + time_step}
        /\ (submitted' # submitted =>
               submitted' = Append(submitted, Len(submitted) * time_step))
        /\ (frame_times' # frame_times =>
               /\ show_fps
               /\ \E d \in Durations : frame_times' = LastN(Append(frame_times, d), FpsWindowCap))
      ]_vars

\* FPS display is on, the window holds non-zero durations, and a sleep has
\* been decided after they were recorded.
C11_Witness ==
    /\ show_fps
    /\ Len(frame_times) >= 2
    /\ Sum(frame_times) > 0
    /\ pc \in {"s_loop", "mp_loop"}
    /\ pace.n = 1
    /\ pace.called

\* C12: the writes of a run are, in order: one cursor-hide, first; per
\* displayed frame a cursor-home, the frame body and, only with FPS
\* display on, an FPS line; at the end one cursor-show and then a newline.
\* No frame body comes before the cursor-hide or without a cursor-home
\* right before it, and nothing follows the final newline.
C12_OutputOrder ==
    LET n == Len(out) IN
    /\ (n > 0 => out[1] = CursorHide)
    /\ \A i \in 1..n :
          /\ (out[i].k = "hide" => i = 1)
          /\ (out[i].k = "home" =>
                 /\ i > 1
                 /\ out[i - 1].k \in (IF show_fps THEN {"hide", "fps"} ELSE {"hide", "frame"}))
          /\ (out[i].k = "frame" =>
                 /\ i > 1
                 /\ out[i - 1] = CursorHome
                 /\ (show_fps => i < n /\ out[i + 1].k = "fps"))
          /\ (out[i].k = "fps" => show_fps /\ i > 1 /\ out[i - 1].k = "frame")
          /\ (out[i].k = "show" => i = n - 1 /\ out[n] = Newline)
          /\ (out[i].k = "nl" => i = n /\ i > 1 /\ out[i - 1] = CursorShow /\ pc = "done")
    /\ (pc = "done" => n >= 3 /\ out[n] = Newline)

\* A run with FPS display that wrote two frames and has ended.
C12_Witness ==
    /\ pc = "done"
    /\ show_fps
    /\ ~exc
    /\ Len(Displayed) >= 2
    /\ Len(out) = 3 * Len(Displayed) + 3

\* C13: for every noise value in [-1, 1], the extremes included, and
\* every non-empty charset, the glyph index lies in 0 .. len(charset) - 1.
C13_GlyphIndexInRange ==
    (fn.op = "glyph" /\ fn.done) => fn.res \in 0..(fn.arg.len - 1)

\* The extreme +1 on a charset of several characters: the last index.
C13_Witness ==
    /\ fn.op = "glyph"
    /\ fn.done
    /\ fn.arg.v = NoiseRes
    /\ fn.arg.len > 1
    /\ fn.res = fn.arg.len - 1

Min(a, b) == IF a <= b THEN a ELSE b

\* C14: with all channels of start and end in 0..255, interpolate_color(0)
\* is the start color, interpolate_color(1) is the end color, and for
\* every t in [0, 1] each channel lies between the start and end channel
\* (inclusive), hence within 0..255.
C14_InterpolationBetweenEndpoints ==
    (fn.op = "interp" /\ fn.done) =>
        /\ (fn.arg.t = 0 => fn.res = fn.arg.start)
        /\ (fn.arg.t = ColorRes => fn.res = fn.arg.end)
        /\ \A c \in 1..3 :
              /\ fn.res[c] >= Min(fn.arg.start[c], fn.arg.end[c])
              /\ fn.res[c] <= Max(fn.arg.start[c], fn.arg.end[c])
              /\ fn.res[c] \in 0..255

\* An interior t on a descending channel: a value strictly between.
C14_Witness ==
    /\ fn.op = "interp"
    /\ fn.done
    /\ fn.arg.t \in 1..(ColorRes - 1)
    /\ fn.arg.start[1] > fn.arg.end[1]
    /\ fn.res[1] < fn.arg.start[1]
    /\ fn.res[1] > fn.arg.end[1]

\* C16: for any input string, parse_hex_color raises ValueError or
\* returns three channel values each in 0..255.
C16_ParsedChannelsInRange ==
    (fn.op = "hex" /\ fn.done /\ fn.res.ok) =>
        \A c \in 1..3 : fn.res.rgb[c] \in 0..255

\* C17: when os.get_terminal_size raises OSError, get_terminal_size
\* returns 80 columns and 24 rows minus the rows reserved (the reservation
\* applied to a real terminal size: 2 with FPS display, 1 without).
C17_FallbackMinusReserve ==
    (fn.op = "termsize" /\ fn.done /\ ~fn.arg.env.ok) =>
        fn.res = [w |-> FallbackColumns, h |-> FallbackLines - Reserve(fn.arg.show)]

\* A color specification in the documented format: an optional '#' and
\* then exactly six hex digits.
WellFormedColor(s) ==
    LET h == IF s # <<>> /\ Head(s) = "#" THEN Tail(s) ELSE s
    IN  Len(h) = 6 /\ \A i \in 1..6 : h[i] \in HexDigits

ConfigError ==
    \/ args.charset \notin CharsetNames
    \/ /\ ~args.no_color
       /\ ~(WellFormedColor(args.color_start) /\ WellFormedColor(args.color_end))

\* C15: a configuration error (a malformed color, an unknown glyph-set
\* name) is caught before the animation starts: for such a configuration
\* nothing, the cursor-hide included, is ever written.
C15_ConfigErrorsCaughtBeforeRun ==
    ConfigError => out = <<>>

\* C18: in both modes every frame of a run has the width and height
\* obtained at the start of the run: all frames of a run have the same
\* size, also when the terminal is resized during the run.
C18_GeometrySampledOncePerRun ==
    \A i \in 1..Len(frameLog) : \A j \in 1..Len(frameLog) :
        frameLog[i].size = frameLog[j].size

\* The multiprocess loop was left by the exception that
\* futures[0].result() raised for a failed render: the queue is still
\* full and its oldest request is the failed one.
LoopEndedByFailedRender ==
    /\ use_multiprocess
    /\ pc \in {"mp_exit", "finally", "done"}
    /\ exc
    /\ Len(futures) = cpu_count
    /\ futures[1].st = "failed"

\* C19 (as claimed): a failed render only delays its frame: it never ends
\* the animation loop.
C19_FailedRenderDoesNotEndLoop == ~LoopEndedByFailedRender

\* C19 (amended): a failed render is fatal to the run, not a delay: when
\* the oldest request has failed, futures[0].result() raises and the loop
\* ends with the queue untouched; the frames written are exactly the time
\* slices before the failed one, in order, and none is written after it.
C19_FailedRenderEndsRunInOrder ==
    (use_multiprocess /\ exc /\ Len(futures) = cpu_count) =>
        /\ pc \in {"mp_exit", "finally", "done"}
        /\ futures[1].st = "failed"
        /\ futures[1].t = Len(Displayed) * time_step
        /\ \A k \in 1..Len(Displayed) : Displayed[k] = (k - 1) * time_step

\* A run that displayed a frame, then was ended by a failed render.
C19_Witness ==
    /\ LoopEndedByFailedRender
    /\ pc = "done"
    /\ ~broken
    /\ Len(Displayed) >= 1

LateFrames == Cardinality({i \in 1..Len(frameLog) : frameLog[i].late})

\* C20: running starts True, only the SIGINT handler changes it and only
\* to False (never back to True), and in both loops at most one more
\* frame is written once it is False.
C20_CancelMonotonicAndBounded ==
    /\ running = TRUE
    /\ [][ /\ (running' => running)
           /\ (running' # running => UNCHANGED <<pc, out, time, futures, frameLog>>)
         ]_vars
    /\ [](LateFrames <= 1)

\* The interrupt arrived after the loop test: one more frame, then the end.
C20_Witness ==
    /\ pc = "done"
    /\ ~exc
    /\ LateFrames = 1
    /\ Len(frameLog) >= 2

====
